---- MODULE Spec2Model ----
(***************************************************************************)
(* AutoGitUploader: the background WorkerThread (run, extract_archive,     *)
(* create_github_repo, cleanup) and the window's submit / completion       *)
(* handlers (upload_to_github, update_status, on_operation_complete,       *)
(* set_ui_enabled).  Texts are sequences of string pieces, so that string  *)
(* formatting (f-strings) is concatenation and can be compared.            *)
(***************************************************************************)
EXTENDS Integers, Sequences, FiniteSets, TLC

VARIABLES workers, queue, enabled, status_text, progress_bar, dialogs,
          settings, started, delivered

vars == <<workers, queue, enabled, status_text, progress_bar, dialogs,
          settings, started, delivered>>

(* ---------------------------------------------------------------------- *)
(* Bounds                                                                 *)
(* ---------------------------------------------------------------------- *)
\* number of submissions that pass validation in one behaviour
MaxJobs == 2
\* longest archive path (in pieces) enumerated for extract_archive
MaxPathLen == 3

Jobs == 1..MaxJobs

None == "None"

(* ---------------------------------------------------------------------- *)
(* Paths: sequences of pieces; "." and "/" are the only pieces that       *)
(* contain a dot or a separator.                                          *)
(* ---------------------------------------------------------------------- *)
PathPieces == {".", "/", "zip", "ZIP", "tar", "gz", "tgz", "txt"}

AllPaths == UNION {[1..n -> PathPieces] : n \in 0..MaxPathLen}

\* str.lower() on one piece
LowerPiece(p) == IF p = "ZIP" THEN "zip" ELSE p

lower(s) == [i \in DOMAIN s |-> LowerPiece(s[i])]

\* str.rfind: the last index of piece c in s, 0 when absent
rfind(s, c) ==
    IF \E i \in DOMAIN s : s[i] = c
    THEN CHOOSE i \in DOMAIN s : s[i] = c /\ \A k \in DOMAIN s : s[k] = c => k <= i
    ELSE 0

\* os.path.splitext (posixpath): <<root, ext>>; the extension starts at the
\* last dot of the last component, unless only dots precede it there.
splitext(p) ==
    LET sepIndex == rfind(p, "/")
        dotIndex == rfind(p, ".")
    IN  IF dotIndex > sepIndex
           /\ \E k \in (sepIndex + 1)..(dotIndex - 1) : p[k] # "."
        THEN <<SubSeq(p, 1, dotIndex - 1), SubSeq(p, dotIndex, Len(p))>>
        ELSE <<p, <<>>>>

(* ---------------------------------------------------------------------- *)
(* Signals                                                                *)
(* ---------------------------------------------------------------------- *)
Status(text) == [kind |-> "update_status", ok |-> FALSE, value |-> 0, text |-> text]
Progress(n) == [kind |-> "update_progress", ok |-> FALSE, value |-> n, text |-> <<>>]
Complete(success, text) ==
    [kind |-> "operation_complete", ok |-> success, value |-> 0, text |-> text]

Emit(w, evs) == [w EXCEPT !.emitted = @ \o evs]

\* an exception leaves the try block: control goes to the except clause
Raise(w, text) ==
    [w EXCEPT !.raised = TRUE, !.exc = text, !.raisedAfter = Len(w.steps)]

Did(w, step) == [w EXCEPT !.steps = Append(@, step)]

(* ---------------------------------------------------------------------- *)
(* The collaborators' behaviour for one job: which external call (if any) *)
(* raises by itself, what the repository-creation endpoint answers, and   *)
(* whether shutil.rmtree succeeds.                                        *)
(* ---------------------------------------------------------------------- *)
FailPoints == {"mkdtemp", "extract", "init", "add", "commit", "post",
               "create_remote", "push"}

Bodies ==
    { [json |-> TRUE, message |-> "name already exists on this account",
       html_url |-> None, raw |-> "{\"message\": ...}"],
      [json |-> TRUE, message |-> None,
       html_url |-> "https://example.test/user/myproj", raw |-> "{\"html_url\": ...}"],
      [json |-> TRUE, message |-> None, html_url |-> None, raw |-> "{}"],
      [json |-> FALSE, message |-> None, html_url |-> None,
       raw |-> "<html>Bad Gateway</html>"] }

\* the answers of the endpoint: 201 and 422 with every body, 200 with the
\* body of a created repository
Responses ==
    { r \in [status_code : {200, 201, 422}, body : Bodies] :
        r.status_code = 200 => r.body.html_url # None }

OkResponse ==
    [status_code |-> 201,
     body |-> [json |-> TRUE, message |-> None,
               html_url |-> "https://example.test/user/myproj",
               raw |-> "{\"html_url\": ...}"]]

\* nothing has been called yet
NoEnv == [failAt |-> "none", response |-> OkResponse, rmOk |-> TRUE]

(* ---------------------------------------------------------------------- *)
(* WorkerThread                                                           *)
(* ---------------------------------------------------------------------- *)
\* WorkerThread.__init__
NewWorker(archive_path, repo_name, github_username, github_token, is_private) ==
    [archive_path |-> archive_path, repo_name |-> repo_name,
     github_username |-> github_username, github_token |-> github_token,
     is_private |-> is_private, temp_dir |-> None,
     pc |-> "mkdtemp", env |-> NoEnv,
     dirExists |-> FALSE, extracted |-> "nothing", repo_url |-> None,
     raised |-> FALSE, exc |-> <<>>, raisedAfter |-> 0,
     steps |-> <<>>, emitted |-> <<>>, cleanups |-> 0]

NoWorker == [pc |-> "none"]

\* extract_archive with ".tgz" missing from the tar family
extract_archive_no_tgz(w) ==
    LET file_ext == lower(splitext(w.archive_path)[2])
        lib(routine, error) ==
            IF w.env.failAt = "extract"
            THEN Raise([Did(w, routine) EXCEPT !.extracted = "partial"], <<error>>)
            ELSE [Did(w, routine) EXCEPT !.extracted = "all"]
    IN  IF file_ext = <<".", "zip">>
        THEN lib("zipfile.extractall", "BadZipFile")
        ELSE IF file_ext \in {<<".", "tar">>, <<".", "gz">>}
        THEN lib("tarfile.extractall", "ReadError")
        ELSE Raise(w, <<"Unsupported archive format: ">> \o file_ext)

\* extract_archive: the routine is chosen from the lower-cased extension
extract_archive(w) ==
    LET file_ext == lower(splitext(w.archive_path)[2])
        lib(routine, error) ==
            IF w.env.failAt = "extract"
            THEN Raise([Did(w, routine) EXCEPT !.extracted = "partial"], <<error>>)
            ELSE [Did(w, routine) EXCEPT !.extracted = "all"]
    IN  IF file_ext = <<".", "zip">>
        THEN lib("zipfile.extractall", "BadZipFile")
        ELSE IF file_ext \in {<<".", "tar">>, <<".", "gz">>, <<".", "tgz">>}
        THEN lib("tarfile.extractall", "ReadError")
        ELSE Raise(w, <<"Unsupported archive format: ">> \o file_ext)

\* tempfile.mkdtemp
mkdtemp(w) ==
    IF w.env.failAt = "mkdtemp"
    THEN Raise(Did(w, "mkdtemp"), <<"OSError: cannot create temporary directory">>)
    ELSE [Did(w, "mkdtemp") EXCEPT !.temp_dir = "tmpdir", !.dirExists = TRUE]

\* the GitPython calls: Repo.init, git.add, git.commit, create_remote, git.push
GitCall(w, name) ==
    IF w.env.failAt = name
    THEN Raise(Did(w, name), <<"GitCommandError: ", name>>)
    ELSE Did(w, name)

\* create_github_repo: POST /user/repos, then read the answer
create_github_repo(w) ==
    LET w1 == Did(w, "requests.post")
        response == w.env.response
        body == response.body
    IN  IF w.env.failAt = "post"
        THEN Raise(w1, <<"ConnectionError">>)
        ELSE IF response.status_code \notin {200, 201}
        THEN IF ~body.json
             THEN Raise(w1, <<"JSONDecodeError: Expecting value">>)
             ELSE Raise(w1, <<"Failed to create GitHub repository: ",
                              IF body.message # None THEN body.message ELSE body.raw>>)
        ELSE IF ~body.json
        THEN Raise(w1, <<"JSONDecodeError: Expecting value">>)
        ELSE IF body.html_url = None
        THEN Raise(w1, <<"'html_url'">>)
        ELSE [w1 EXCEPT !.repo_url = body.html_url]

\* cleanup without the try/except around rmtree
cleanup_unguarded(w) ==
    LET w1 == [w EXCEPT !.cleanups = @ + 1]
    IN  IF w1.temp_dir # None /\ w1.dirExists
        THEN IF w1.env.rmOk
             THEN [Did(w1, "rmtree") EXCEPT !.dirExists = FALSE]
             ELSE Raise(Did(w1, "rmtree"), <<"OSError">>)
        ELSE w1

\* cleanup: rmtree when the directory was allocated and exists; a failed
\* rmtree is reported on update_status and swallowed
cleanup(w) ==
    LET w1 == [w EXCEPT !.cleanups = @ + 1]
    IN  IF w1.temp_dir # None /\ w1.dirExists
        THEN IF w1.env.rmOk
             THEN [Did(w1, "rmtree") EXCEPT !.dirExists = FALSE]
             ELSE Emit(Did(w1, "rmtree"),
                       <<Status(<<"Warning: Failed to clean up temporary directory: ",
                                  "OSError">>)>>)
        ELSE w1

\* a try block that goes on after a failed call
TryStep_goes_on(called, post, next) ==
    [Emit(called, post) EXCEPT !.pc = next]

\* one statement group of the try block: the status line, the call, and on
\* return the progress value; an exception transfers to the except clause
TryStep(called, post, next) ==
    IF called.raised
    THEN [called EXCEPT !.pc = "except"]
    ELSE [Emit(called, post) EXCEPT !.pc = next]

run_mkdtemp(w) ==
    LET w1 == Emit(w, <<Status(<<"Creating temporary directory...">>)>>)
    IN  TryStep(mkdtemp(w1), <<Progress(10)>>, "extract")

run_extract(w) ==
    LET w1 == Emit(w, <<Status(<<"Extracting ">> \o w.archive_path
                               \o <<" to temporary directory...">>)>>)
    IN  TryStep(extract_archive(w1), <<Progress(30)>>, "init")

run_init(w) ==
    LET w1 == Emit(w, <<Status(<<"Initializing Git repository...">>)>>)
    IN  TryStep(GitCall(w1, "init"), <<Progress(40)>>, "add")

run_add(w) ==
    LET w1 == Emit(w, <<Status(<<"Adding files to Git...">>)>>)
    IN  TryStep(GitCall(w1, "add"), <<Progress(50)>>, "commit")

run_commit(w) ==
    LET w1 == Emit(w, <<Status(<<"Committing files...">>)>>)
    IN  TryStep(GitCall(w1, "commit"), <<Progress(60)>>, "create")

run_create(w) ==
    LET w1 == Emit(w, <<Status(<<"Creating GitHub repository: ", w.repo_name, "...">>)>>)
    IN  TryStep(create_github_repo(w1), <<Progress(70)>>, "create_remote")

run_create_remote(w) ==
    LET w1 == Emit(w, <<Status(<<"Pushing to GitHub...">>)>>)
    IN  TryStep(GitCall(w1, "create_remote"), <<>>, "push")

run_push(w) ==
    TryStep(GitCall(w, "push"), <<Progress(90)>>, "cleanup")

run_cleanup(w) ==
    LET w1 == Emit(w, <<Status(<<"Cleaning up temporary files...">>)>>)
    IN  TryStep(cleanup(w1), <<>>, "finish")

\* the outcome emitted before the last progress value
run_finish_outcome_first(w) ==
    [Emit(w, <<Complete(TRUE, <<"Successfully uploaded to ", w.repo_url>>),
               Progress(100)>>)
        EXCEPT !.pc = "done"]

run_finish(w) ==
    [Emit(w, <<Progress(100),
               Complete(TRUE, <<"Successfully uploaded to ", w.repo_url>>)>>)
        EXCEPT !.pc = "done"]

\* an except clause that logs the error but emits no outcome
run_except_silent(w) ==
    [Emit(w, <<Status(<<"Error: ">> \o w.exc)>>) EXCEPT !.pc = "cleanup_failed"]

\* the except clause: the error line and the outcome are emitted, ...
run_except(w) ==
    [Emit(w, <<Status(<<"Error: ">> \o w.exc), Complete(FALSE, w.exc)>>)
        EXCEPT !.pc = "cleanup_failed"]

\* an except clause that leaves the directory behind
run_except_no_cleanup(w) ==
    [w EXCEPT !.pc = "done"]

\* ... and then the directory is cleaned up
run_except_cleanup(w) ==
    [cleanup(w) EXCEPT !.pc = "done"]

\* WorkerThread.run, one statement group at a time
run(w) ==
    CASE w.pc = "mkdtemp" -> run_mkdtemp(w)
      [] w.pc = "extract" -> run_extract(w)
      [] w.pc = "init" -> run_init(w)
      [] w.pc = "add" -> run_add(w)
      [] w.pc = "commit" -> run_commit(w)
      [] w.pc = "create" -> run_create(w)
      [] w.pc = "create_remote" -> run_create_remote(w)
      [] w.pc = "push" -> run_push(w)
      [] w.pc = "cleanup" -> run_cleanup(w)
      [] w.pc = "finish" -> run_finish(w)
      [] w.pc = "except" -> run_except(w)
      [] w.pc = "cleanup_failed" -> run_except_cleanup(w)

Running(w) == w.pc \notin {"none", "done"}

\* what the collaborators may answer to the call the thread is about to
\* make: the call raises, the endpoint's response, the result of rmtree
Answers(w) ==
    CASE w.pc \in {"mkdtemp", "extract", "init", "add", "commit", "create_remote", "push"} ->
             {w.env, [w.env EXCEPT !.failAt = w.pc]}
      [] w.pc = "create" ->
             {[w.env EXCEPT !.failAt = "post"]}
             \cup {[w.env EXCEPT !.response = r] : r \in Responses}
      [] w.pc \in {"cleanup", "cleanup_failed"} ->
             IF w.temp_dir # None THEN {w.env, [w.env EXCEPT !.rmOk = FALSE]} ELSE {w.env}
      [] OTHER -> {w.env}

(* ---------------------------------------------------------------------- *)
(* The window                                                             *)
(* ---------------------------------------------------------------------- *)
Controls == {"browse_button", "github_username_edit", "github_token_edit",
             "repo_name_edit", "private_repo_checkbox", "save_username_checkbox",
             "upload_button"}

\* set_ui_enabled
set_ui_enabled(value) == [c \in Controls |-> value]

Dialog(kind, title, text) == [kind |-> kind, title |-> title, text |-> text]

\* the validation without the token check
Rejection_no_token_check(archive_path, file_exists, repo_name, github_username, github_token) ==
    IF archive_path = <<>> THEN <<"Please select an archive file.">>
    ELSE IF ~file_exists THEN <<"Selected archive file does not exist.">>
    ELSE IF repo_name = "" THEN <<"Please enter a repository name.">>
    ELSE IF github_username = "" THEN <<"Please enter your GitHub username.">>
    ELSE <<>>

\* the validation of upload_to_github: the warning shown, or <<>> when the
\* inputs pass
Rejection(archive_path, file_exists, repo_name, github_username, github_token) ==
    IF archive_path = <<>> THEN <<"Please select an archive file.">>
    ELSE IF ~file_exists THEN <<"Selected archive file does not exist.">>
    ELSE IF repo_name = "" THEN <<"Please enter a repository name.">>
    ELSE IF github_username = "" THEN <<"Please enter your GitHub username.">>
    ELSE IF github_token = "" THEN <<"Please enter your GitHub token.">>
    ELSE <<>>

\* the values the form can hold when the upload button is clicked
ArchiveInputs == { <<>>, <<"project", ".", "zip">>, <<"notes", ".", "txt">>,
                   <<"missing", ".", "zip">> }

\* os.path.exists on the archive path: the files on disk
ExistingFiles == { <<"project", ".", "zip">>, <<"notes", ".", "txt">> }

exists(path) == path \in ExistingFiles
RepoNameInputs == {"", "myproj"}
\* the two checkboxes are left as init_ui sets them
PrivateInputs == {FALSE}
SaveInputs == {TRUE}
UsernameInputs == {"", "octocat"}
TokenInputs == {"", "ghp_token"}

\* a thread the window no longer names: what it has done so far is no
\* longer recorded, only what the rest of run() reads is kept
Detached(w) ==
    IF w.pc = "cleanup_failed"
    THEN [NewWorker(<<>>, "", "", "", FALSE)
            EXCEPT !.pc = w.pc, !.temp_dir = w.temp_dir, !.dirExists = w.dirExists]
    ELSE w

\* a thread object whose run() has returned and that self.worker no longer
\* names: its last reference goes with run()'s frame
Garbage(j) == workers[j].pc = "done" /\ j # started

Unreferenced == \E j \in Jobs : Garbage(j)

\* upload_to_github: the click handler of upload_button
upload_to_github(archive_path, repo_name, github_username, github_token, is_private, save) ==
    /\ enabled["upload_button"]
    /\ dialogs = <<>>
    /\ ~Unreferenced
    /\ LET rejection == Rejection(archive_path, exists(archive_path), repo_name,
                                  github_username, github_token)
       IN  IF rejection # <<>>
           THEN /\ dialogs' = <<Dialog("warning", "Error", rejection)>>
                /\ UNCHANGED <<workers, queue, enabled, status_text, progress_bar,
                               settings, started, delivered>>
           ELSE /\ started < MaxJobs
                /\ settings' = IF save THEN github_username ELSE None
                /\ status_text' = <<>>
                /\ progress_bar' = 0
                /\ enabled' = set_ui_enabled(FALSE)
                /\ started' = started + 1
                \* self.worker is rebound: a finished thread object is dropped, one
                \* that is still inside run() keeps running, unobserved
                /\ workers' = [j \in Jobs |->
                                 IF j = started + 1
                                 THEN NewWorker(archive_path, repo_name, github_username,
                                                github_token, is_private)
                                 ELSE IF Running(workers[j]) THEN Detached(workers[j])
                                 ELSE NoWorker]
                /\ UNCHANGED <<queue, dialogs, delivered>>

\* the user closes the modal message box
DismissDialog ==
    /\ dialogs # <<>>
    /\ ~Unreferenced
    /\ dialogs' = Tail(dialogs)
    /\ UNCHANGED <<workers, queue, enabled, status_text, progress_bar, settings,
                   started, delivered>>

\* the background thread executes its next statement group; the signals it
\* emits are posted to the window's event queue
WorkerRun(j) ==
    /\ Running(workers[j])
    /\ ~Unreferenced
    /\ \E env \in Answers(workers[j]) :
       LET w == workers[j]
           w2 == run([w EXCEPT !.env = env])
           posted == SubSeq(w2.emitted, Len(w.emitted) + 1, Len(w2.emitted))
       IN  /\ workers' = [workers EXCEPT ![j] = w2]
           /\ queue' = queue \o [i \in DOMAIN posted |-> [job |-> j, ev |-> posted[i]]]
    /\ UNCHANGED <<enabled, status_text, progress_bar, dialogs, settings, started,
                   delivered>>

\* update_status slot
update_status(message) ==
    /\ status_text' = Append(status_text, message)
    /\ UNCHANGED <<enabled, progress_bar, dialogs, delivered>>

\* progress_bar.setValue slot
setValue(value) ==
    /\ progress_bar' = value
    /\ UNCHANGED <<enabled, status_text, dialogs, delivered>>

\* on_operation_complete slot
on_operation_complete(j, success, message) ==
    /\ enabled' = set_ui_enabled(TRUE)
    /\ dialogs' = IF success
                  THEN <<Dialog("information", "Success", message)>> \o dialogs
                  ELSE <<Dialog("critical", "Error", <<"Operation failed: ">> \o message)>>
                       \o dialogs
    /\ delivered' = [delivered EXCEPT ![j] = @ + 1]
    /\ UNCHANGED <<status_text, progress_bar>>

\* the window's event loop delivers the oldest queued signal to its slot
Deliver ==
    /\ queue # <<>>
    /\ ~Unreferenced
    /\ LET m == Head(queue)
       IN  CASE m.ev.kind = "update_status" -> update_status(m.ev.text)
             [] m.ev.kind = "update_progress" -> setValue(m.ev.value)
             [] m.ev.kind = "operation_complete" ->
                    on_operation_complete(m.job, m.ev.ok, m.ev.text)
    /\ queue' = Tail(queue)
    /\ UNCHANGED <<workers, settings, started>>

\* the unreferenced thread object is deallocated as run() returns
Collect(j) ==
    /\ Garbage(j)
    /\ workers' = [workers EXCEPT ![j] = NoWorker]
    /\ UNCHANGED <<queue, enabled, status_text, progress_bar, dialogs, settings,
                   started, delivered>>

Click ==
    \E archive_path \in ArchiveInputs, repo_name \in RepoNameInputs,
       github_username \in UsernameInputs, github_token \in TokenInputs,
       is_private \in PrivateInputs, save \in SaveInputs :
        upload_to_github(archive_path, repo_name, github_username, github_token,
                         is_private, save)

\* AutoGitUploader.__init__ with an empty settings store
Init ==
    /\ workers = [j \in Jobs |-> NoWorker]
    /\ queue = <<>>
    /\ enabled = set_ui_enabled(TRUE)
    /\ status_text = <<>>
    /\ progress_bar = 0
    /\ dialogs = <<>>
    /\ settings = None
    /\ started = 0
    /\ delivered = [j \in Jobs |-> 0]

Next ==
    \/ Click
    \/ DismissDialog
    \/ \E j \in Jobs : WorkerRun(j)
    \/ \E j \in Jobs : Collect(j)
    \/ Deliver

Spec == Init /\ [][Next]_vars

\* what the program does by itself, without the user
Progresses ==
    \/ Deliver
    \/ \E j \in Jobs : WorkerRun(j)
    \/ \E j \in Jobs : Collect(j)

\* the program does not stop while the event loop has a signal to deliver or
\* a thread has a statement to execute: every external call returns
FairSpec == Spec /\ WF_vars(Progresses)

\* a WorkerThread constructed on an arbitrary archive path and started
InitExtract ==
    /\ \E p \in AllPaths :
          workers = [j \in Jobs |->
                        IF j = 1 THEN NewWorker(p, "myproj", "octocat", "ghp_token", FALSE)
                        ELSE NoWorker]
    /\ queue = <<>>
    /\ enabled = set_ui_enabled(FALSE)
    /\ status_text = <<>>
    /\ progress_bar = 0
    /\ dialogs = <<>>
    /\ settings = None
    /\ started = 1
    /\ delivered = [j \in Jobs |-> 0]

NextExtract == \E j \in Jobs : WorkerRun(j)

ExtractSpec == InitExtract /\ [][NextExtract]_vars

(* ---------------------------------------------------------------------- *)
(* Properties                                                             *)
(* ---------------------------------------------------------------------- *)
\* the job whose thread the window references; its record carries what it
\* has emitted and called so far
Observed(j) == j = started /\ workers[j].pc # "none"

IsOutcome(e) == e.kind = "operation_complete"
IsStatus(e) == e.kind = "update_status"
IsProgress(e) == e.kind = "update_progress"
IsWarning(e) == IsStatus(e) /\ e.text # <<>> /\ e.text[1] = "Warning: Failed to clean up temporary directory: "

Outcomes(w) == SelectSeq(w.emitted, IsOutcome)
FailureReported(w) == \E i \in DOMAIN w.emitted : IsOutcome(w.emitted[i]) /\ ~w.emitted[i].ok
SuccessReported(w) == \E i \in DOMAIN w.emitted : IsOutcome(w.emitted[i]) /\ w.emitted[i].ok

IsDirStep(x) == x # "requests.post"
IsTryCall(x) == x # "rmtree"
TryCalls(w) == SelectSeq(w.steps, IsTryCall)
Count(seq, x) == Cardinality({i \in DOMAIN seq : seq[i] = x})

\* C1: when a step of the try block raises, cleanup has run by the time the
\* failure outcome (operation_complete with success = false) is emitted.
C1_CleanupBeforeFailureReport ==
    \A j \in Jobs : Observed(j) /\ FailureReported(workers[j]) => workers[j].cleanups >= 1

\* C2: at most one job is in flight: while a background run has not finished
\* (cleanup included) the submit control is disabled, and no two runs
\* execute at the same time.
C2_OneJobInFlight ==
    /\ \A j \in Jobs : Running(workers[j]) => ~enabled["upload_button"]
    /\ Cardinality({j \in Jobs : Running(workers[j])}) <= 1

\* the endpoint has answered with a status other than 200 / 201
CreationRefused(w) ==
    /\ "requests.post" \in {w.steps[i] : i \in DOMAIN w.steps}
    /\ w.env.failAt # "post"
    /\ w.env.response.status_code \notin {200, 201}

\* C3: when the repository-creation call answers with a status other than
\* 200 / 201, the job fails without attempting the push, and the failure
\* message equals the response's message field when there is one and the
\* raw response body otherwise (JSON without message, non-JSON).
C3_CreationFailureMessage ==
    \A j \in Jobs :
        Observed(j) /\ workers[j].pc = "done" /\ CreationRefused(workers[j]) =>
            LET w == workers[j]
                body == w.env.response.body
            IN  /\ Outcomes(w) =
                     <<Complete(FALSE, IF body.message # None THEN <<body.message>>
                                       ELSE <<body.raw>>)>>
                /\ \A i \in DOMAIN w.steps : w.steps[i] \notin {"create_remote", "push"}

\* the same job run to its end with a deletion that succeeds
RECURSIVE RunToEnd(_)
RunToEnd(w) == IF w.pc = "done" THEN w ELSE RunToEnd(run(w))

WithDeletionSucceeding(w) ==
    RunToEnd([NewWorker(w.archive_path, w.repo_name, w.github_username, w.github_token,
                        w.is_private)
                 EXCEPT !.env = [w.env EXCEPT !.rmOk = TRUE]])

IsNotWarning(e) == ~IsWarning(e)

\* C4: a failing deletion of the working directory leaves the reported
\* outcome (success flag and message) as it is with a succeeding deletion,
\* and adds exactly one warning line to the job's status log.
C4_DeletionFailureKeepsOutcome ==
    \A j \in Jobs :
        Observed(j) /\ workers[j].pc = "done" =>
            LET w == workers[j]
                ref == WithDeletionSucceeding(w)
            IN  /\ Outcomes(w) = Outcomes(ref)
                /\ Len(Outcomes(w)) = 1
                /\ SelectSeq(w.emitted, IsNotWarning) = ref.emitted
                /\ Len(w.emitted) = Len(ref.emitted) + (IF w.env.rmOk THEN 0 ELSE 1)

C4_Witness ==
    \E j \in Jobs :
        /\ Observed(j) /\ workers[j].pc = "done" /\ ~workers[j].env.rmOk
        /\ SuccessReported(workers[j])
        /\ \E i \in DOMAIN workers[j].emitted : IsWarning(workers[j].emitted[i])

\* C5: once the working directory is allocated, its deletion is attempted
\* exactly once by the end of the run, on every path; if the deletion does
\* not fail the directory is gone at the end; no step touches the directory
\* after the deletion attempt; without an allocation no deletion is
\* attempted.
C5_DeletionExactlyOnce ==
    \A j \in Jobs :
        Observed(j) =>
            LET w == workers[j]
            IN  /\ Count(w.steps, "rmtree") <= 1
                /\ \A i, k \in DOMAIN w.steps :
                      w.steps[i] = "rmtree" /\ i < k => ~IsDirStep(w.steps[k])
                /\ w.temp_dir = None => Count(w.steps, "rmtree") = 0 /\ ~w.dirExists
                /\ w.pc = "done" /\ w.temp_dir # None =>
                      /\ Count(w.steps, "rmtree") = 1
                      /\ w.env.rmOk => ~w.dirExists

C5_Witness ==
    \E j \in Jobs :
        /\ Observed(j) /\ workers[j].pc = "done" /\ workers[j].raised
        /\ workers[j].temp_dir # None /\ ~workers[j].dirExists
        /\ Count(workers[j].steps, "rmtree") = 1

ProgressValues(w) ==
    LET p == SelectSeq(w.emitted, IsProgress) IN [i \in DOMAIN p |-> p[i].value]
StatusLines(w) ==
    LET p == SelectSeq(w.emitted, IsStatus) IN [i \in DOMAIN p |-> p[i].text[1]]

\* every external operation of the job has succeeded
AllSucceeded(w) ==
    /\ w.pc = "done"
    /\ w.env.failAt = "none" /\ w.env.rmOk
    /\ "requests.post" \in {w.steps[i] : i \in DOMAIN w.steps}
    /\ w.env.response.status_code \in {200, 201}
    /\ w.env.response.body.json /\ w.env.response.body.html_url # None

\* C6: a job in which every external operation succeeds goes through
\* extracting, initializing, staging, committing, creating the remote,
\* pushing and cleaning up in that order and ends with success; its progress
\* values never decrease, the last is 100 and precedes the outcome, and the
\* message is "Successfully uploaded to " followed by the returned html_url.
C6_SuccessfulRun ==
    \A j \in Jobs :
        Observed(j) /\ AllSucceeded(workers[j]) =>
            LET w == workers[j]
                p == ProgressValues(w)
                n == Len(w.emitted)
            IN  /\ Len(w.steps) = 9
                /\ w.steps[1] = "mkdtemp"
                /\ w.steps[2] \in {"zipfile.extractall", "tarfile.extractall"}
                /\ SubSeq(w.steps, 3, 9) =
                      <<"init", "add", "commit", "requests.post", "create_remote",
                        "push", "rmtree">>
                /\ StatusLines(w) =
                      <<"Creating temporary directory...", "Extracting ",
                        "Initializing Git repository...", "Adding files to Git...",
                        "Committing files...", "Creating GitHub repository: ",
                        "Pushing to GitHub...", "Cleaning up temporary files...">>
                /\ \A i, k \in DOMAIN p : i <= k => p[i] <= p[k]
                /\ p # <<>> /\ p[Len(p)] = 100
                /\ n >= 2 /\ w.emitted[n - 1] = Progress(100)
                /\ w.emitted[n] =
                      Complete(TRUE, <<"Successfully uploaded to ",
                                       w.env.response.body.html_url>>)
                /\ Outcomes(w) = <<w.emitted[n]>>

C6_Witness ==
    \E j \in Jobs :
        /\ Observed(j) /\ AllSucceeded(workers[j])
        /\ SuccessReported(workers[j])
        /\ workers[j].env.response.status_code = 200

StepOrder ==
    <<{"mkdtemp"}, {"zipfile.extractall", "tarfile.extractall"}, {"init"}, {"add"},
      {"commit"}, {"requests.post"}, {"create_remote"}, {"push"}>>

\* C7: the steps run at most once each and only in the fixed order; once a
\* step fails no later step runs; the creation call is made only after
\* extraction, init, staging and commit succeeded; remote registration and
\* push only after the creation call succeeded; success is reported only if
\* the push succeeded.
C7_ForwardOnly ==
    \A j \in Jobs :
        Observed(j) =>
            LET w == workers[j]
                c == TryCalls(w)
                last == IF c = <<>> THEN "none" ELSE c[Len(c)]
            IN  /\ Len(c) <= Len(StepOrder)
                /\ \A i \in DOMAIN c : c[i] \in StepOrder[i]
                /\ w.raised => Len(c) = w.raisedAfter
                /\ (\E i \in DOMAIN c : c[i] = "requests.post") =>
                      w.extracted = "all"
                /\ (\E i \in DOMAIN c : c[i] = "create_remote") => w.repo_url # None
                /\ SuccessReported(w) => last = "push" /\ ~w.raised /\ w.env.failAt = "none"

C7_Witness ==
    \E j \in Jobs :
        /\ Observed(j) /\ workers[j].pc = "done" /\ workers[j].raised
        /\ workers[j].env.failAt = "commit"
        /\ TryCalls(workers[j]) = <<"mkdtemp", "zipfile.extractall", "init", "add", "commit">>

AllEnabled == \A c \in Controls : enabled[c]
AllDisabled == \A c \in Controls : ~enabled[c]

\* C8: every submitted job eventually delivers exactly one outcome to the
\* window; the controls disabled at submission stay disabled until that
\* outcome is delivered and are all enabled again when it is.
C8_OutcomeDeliveredOnce ==
    /\ \A j \in Jobs : (started >= j) ~> (delivered[j] = 1)
    /\ [][ /\ \A j \in Jobs : delivered[j] <= 1 /\ (delivered[j] = 1 => delivered'[j] = 1)
           /\ started' # started => AllDisabled'
           /\ (\E c \in Controls : ~enabled[c] /\ enabled'[c]) =>
                 delivered'[started] = delivered[started] + 1
           /\ (\E j \in Jobs : delivered'[j] # delivered[j]) => AllEnabled' ]_vars

C8_Witness ==
    /\ started = 2 /\ delivered[1] = 1 /\ delivered[2] = 1
    /\ AllEnabled
    /\ workers[2].pc = "done" /\ workers[2].raised

\* the rejection causes a submission has
Causes(archive_path, file_exists, repo_name, github_username, github_token) ==
    (IF archive_path = <<>> THEN {"archive path empty"} ELSE {})
    \cup (IF archive_path # <<>> /\ ~file_exists THEN {"archive file missing"} ELSE {})
    \cup (IF repo_name = "" THEN {"repository name empty"} ELSE {})
    \cup (IF github_username = "" THEN {"account empty"} ELSE {})
    \cup (IF github_token = "" THEN {"credential empty"} ELSE {})

AllCauses == {"archive path empty", "archive file missing", "repository name empty",
              "account empty", "credential empty"}

\* the message shown for a submission whose only fault is cause c
MessageFor(c) ==
    Rejection(IF c = "archive path empty" THEN <<>> ELSE <<"project", ".", "zip">>,
              c \notin {"archive path empty", "archive file missing"},
              IF c = "repository name empty" THEN "" ELSE "myproj",
              IF c = "account empty" THEN "" ELSE "octocat",
              IF c = "credential empty" THEN "" ELSE "ghp_token")

\* C9: a submission with an empty archive path, a missing archive file, an
\* empty repository name, account or credential is rejected in the click
\* handler: no thread is created, the controls stay enabled, progress, status
\* log and the saved account are unchanged; each cause has its own message,
\* different from the others; a job starts only when all five checks pass.
C9_ValidationRejects ==
    [][ /\ (dialogs' # dialogs /\ dialogs' # <<>> /\ dialogs'[1].kind = "warning") =>
              /\ UNCHANGED <<workers, queue, enabled, status_text, progress_bar, settings,
                             started, delivered>>
              /\ AllEnabled'
              /\ Len(dialogs') = 1
              /\ \E c \in AllCauses : dialogs'[1].text = MessageFor(c)
        /\ started' # started =>
              LET w == workers'[started']
              IN  /\ started' = started + 1 /\ w.pc = "mkdtemp"
                  /\ Causes(w.archive_path, exists(w.archive_path), w.repo_name,
                            w.github_username, w.github_token) = {}
                  /\ \A archive_path \in ArchiveInputs, repo_name \in RepoNameInputs,
                        github_username \in UsernameInputs, github_token \in TokenInputs :
                        LET causes == Causes(archive_path, exists(archive_path), repo_name,
                                             github_username, github_token)
                            shown == Rejection(archive_path, exists(archive_path),
                                               repo_name, github_username, github_token)
                        IN  IF causes = {} THEN shown = <<>>
                            ELSE \E c \in causes : shown = MessageFor(c)
                  /\ \A c, d \in AllCauses :
                        /\ MessageFor(c) # <<>>
                        /\ c # d => MessageFor(c) # MessageFor(d) ]_vars

C9_Witness ==
    /\ dialogs = <<Dialog("warning", "Error", <<"Please enter your GitHub token.">>)>>
    /\ started = 1 /\ settings = "octocat"
    /\ AllEnabled

\* the final suffix of the file name: the pieces after the last dot of the
\* last path component, when something other than dots precedes that dot
RECURSIVE LastComponent(_)
LastComponent(p) ==
    IF p = <<>> \/ p[Len(p)] = "/" THEN <<>>
    ELSE Append(LastComponent(SubSeq(p, 1, Len(p) - 1)), p[Len(p)])

FinalSuffix(p) ==
    LET name == LastComponent(p)
        dots == {i \in DOMAIN name : name[i] = "."}
        d == CHOOSE i \in dots : \A k \in dots : k <= i
    IN  IF dots # {} /\ \E i \in 1..(d - 1) : name[i] # "."
        THEN [present |-> TRUE, pieces |-> SubSeq(name, d + 1, Len(name))]
        ELSE [present |-> FALSE, pieces |-> <<>>]

Fold(pieces) == [i \in DOMAIN pieces |-> IF pieces[i] = "ZIP" THEN "zip" ELSE pieces[i]]

SuffixKind(p) ==
    LET sfx == Fold(FinalSuffix(p).pieces)
    IN  IF sfx = <<"zip">> THEN "zip"
        ELSE IF sfx \in {<<"tar">>, <<"gz">>, <<"tgz">>} THEN "tar"
        ELSE "other"

\* C10: extract_archive decides from the final suffix of the file name
\* alone: zip goes to zip decompression, tar, gz and tgz go to tar
\* decompression, and any other suffix (or none) fails with the format error
\* naming the extension, with no decompression routine called and nothing
\* written to the destination.
C10_ExtractBySuffix ==
    \A j \in Jobs :
        Observed(j) /\ workers[j].temp_dir # None
                    /\ workers[j].pc \notin {"mkdtemp", "extract"} =>
            LET w == workers[j]
                sfx == FinalSuffix(w.archive_path)
                kind == SuffixKind(w.archive_path)
            IN  /\ kind = "zip" =>
                      /\ Count(w.steps, "zipfile.extractall") = 1
                      /\ Count(w.steps, "tarfile.extractall") = 0
                /\ kind = "tar" =>
                      /\ Count(w.steps, "tarfile.extractall") = 1
                      /\ Count(w.steps, "zipfile.extractall") = 0
                /\ kind = "other" =>
                      /\ Count(w.steps, "zipfile.extractall") = 0
                      /\ Count(w.steps, "tarfile.extractall") = 0
                      /\ w.extracted = "nothing"
                      /\ w.raised
                      /\ w.exc = <<"Unsupported archive format: ">>
                                 \o (IF sfx.present THEN <<".">> \o Fold(sfx.pieces)
                                     ELSE <<>>)
                      /\ TryCalls(w) = <<"mkdtemp">>

C10_Witness ==
    \E j \in Jobs :
        /\ Observed(j) /\ workers[j].pc = "done"
        /\ workers[j].archive_path = <<"zip", ".", "txt">>
        /\ workers[j].exc = <<"Unsupported archive format: ", ".", "txt">>
        /\ workers[j].extracted = "nothing"
====
